---- MODULE Spec2Model ----
(***************************************************************************)
(* The Flow Access API server of flow-archive-access (package api, type    *)
(* Server) on top of an index reader and a script invoker.                 *)
(*                                                                         *)
(* A handler is a sequential Go function whose only interactions with the  *)
(* outside are its calls to s.index and s.invoker.  Each handler is an     *)
(* operator H(request fields, rs): rs is the sequence of replies the       *)
(* handler has received so far from s.index / s.invoker, and the value is  *)
(* either the next call the handler makes (k = "call"), or what it returns *)
(* (k = "ret", with the number of replies it consumed), or a Go panic      *)
(* (k = "panic").  A request in flight advances one external call at a     *)
(* time, so the index may grow between two calls of one request.           *)
(*                                                                         *)
(* Record constructors list their fields in the order in which the field   *)
(* names first occur in this module, which is the order TLC keeps them in. *)
(***************************************************************************)
EXTENDS Naturals, Sequences, FiniteSets

VARIABLES top, last, phase, req, rs, calls, out

vars == <<top, last, phase, req, rs, calls, out>>

(***************************************************************************)
(* Bounds.                                                                 *)
(***************************************************************************)
MaxHeight == 4      \* heights FirstHeight..MaxHeight can be indexed
MaxIDs    == 2      \* longest BlockIds list of a GetEventsForBlockIDs request
MaxArgs   == 2      \* longest Arguments list of an ExecuteScript request

(***************************************************************************)
(* Identifiers: flow.Identifier is a fixed-size byte array (32 bytes in    *)
(* flow-go, IDLen bytes here); request fields carry byte slices of any     *)
(* length, which flow.HashToID copies into the array.                      *)
(***************************************************************************)
IDLen == 2

\* func HashToID(hash []byte) Identifier { var id Identifier; copy(id[:], hash); return id }
HashToID(hash) == [i \in 1..IDLen |-> IF i <= Len(hash) THEN hash[i] ELSE 0]

\* conv.IDToHash / convert.IdentifierToMessage: id[:]
IDToHash(id) == id

(***************************************************************************)
(* Errors are chains of messages: fmt.Errorf("...: %w", err) puts a message *)
(* in front of the chain of err.  nil is the empty chain.                  *)
(***************************************************************************)
NoErr == <<>>
Wrap(msg, err) == <<msg>> \o err
ErrNotFound    == <<"NotFound">>
ErrUnavailable == <<"Unavailable">>
ErrInvoker     == <<"ExecutionFailed">>

OK(v)    == [err |-> NoErr, val |-> v]
Err(e)   == [err |-> e, val |-> <<>>]
IsErr(r) == r.err # NoErr

\* A nil response pointer.
NilResp == [nil |-> TRUE]

Call(c)         == [k |-> "call", call |-> c]
Ret(resp, used) == [err |-> NoErr, k |-> "ret", resp |-> resp, used |-> used]
Fail(err, used) == [err |-> err, k |-> "ret", resp |-> NilResp, used |-> used]
Panic           == [k |-> "panic"]
\* The outcome of a callee, seen by a caller that consumed n replies before it.
After(o, n) == IF o.k = "ret" THEN [o EXCEPT !.used = @ + n] ELSE o
\* The replies left for a callee after the caller consumed n of them.
Rest(s, n) == SubSeq(s, n + 1, Len(s))

(***************************************************************************)
(* The content of the chain the index is built from.  The content of a     *)
(* height depends on height % 4, so that every MaxHeight gives heights     *)
(* with and without seals, collections, transactions and events.           *)
(***************************************************************************)
FirstHeight == 1

BlockID(h)    == <<h, h % 2>>
TxID(h, i)    == <<h, 10 + i>>
SealID(h, i)  == <<h, 20 + i>>
CollID(h, i)  == <<h, 30 + i>>
ResultID(h)   == <<h, 40>>
AbsentID      == <<99, 99>>

NTx(h)    == CASE h % 4 = 1 -> 2 [] h % 4 = 2 -> 1 [] h % 4 = 3 -> 2 [] OTHER -> 0
NSeals(h) == CASE h % 4 = 1 -> 1 [] h % 4 = 2 -> 0 [] h % 4 = 3 -> 2 [] OTHER -> 1
NColls(h) == CASE h % 4 = 1 -> 2 [] h % 4 = 2 -> 1 [] h % 4 = 3 -> 1 [] OTHER -> 0

StoredHeader(h) ==
  [Height |-> h,
   ParentID |-> IF h = 0 THEN <<0, 0>> ELSE BlockID(h - 1),
   Timestamp |-> 100 + h,
   ChainID |-> "flow-mainnet",
   ParentVoterIndices |-> IF h % 4 = 0 THEN "malformed" ELSE "valid",
   ParentVoterSigData |-> 50 + h]

\* header.ID(): the hash of the header.
ID(header) == BlockID(header.Height)

StoredSeal(h, i) ==
  [BlockID |-> BlockID(h - NSeals(h) + i - 1),
   ResultID |-> ResultID(h - NSeals(h) + i - 1)]

StoredGuarantee(h, i) == [CollectionID |-> CollID(h, i), Signature |-> 60 + i]

\* The transactions of the i-th collection of height h.
StoredCollection(h, i) ==
  [Transactions |->
     IF NColls(h) = 1 THEN [j \in 1..NTx(h) |-> TxID(h, j)]
     ELSE <<TxID(h, i)>>]

StoredTransaction(h, i) == [Script |-> "tx", ReferenceBlockID |-> BlockID(h - 1), Payer |-> i]

StoredResult(h, i) ==
  [ErrorMessage |->
     CASE h % 4 = 1 -> (IF i = 1 THEN "" ELSE "reverted")
       [] h % 4 = 3 -> (IF i = 1 THEN "reverted" ELSE "")
       [] OTHER -> ""]

Event(type, h, txIndex, eventIndex) ==
  [Type |-> type, TransactionID |-> TxID(h, txIndex + 1), TransactionIndex |-> txIndex,
   EventIndex |-> eventIndex, Payload |-> 70 + eventIndex]

StoredEvents(h) ==
  CASE h % 4 = 1 -> <<Event("A", h, 0, 0), Event("B", h, 1, 0)>>
    [] h % 4 = 3 -> <<Event("A", h, 1, 0), Event("B", h, 1, 1)>>
    [] OTHER -> <<>>

Heights == FirstHeight..MaxHeight

(***************************************************************************)
(* The index reader (archive.Reader), as the server sees it: heights       *)
(* FirstHeight..top hold data, and Last() is last <= top.  Every lookup    *)
(* fails with NotFound for an absent key.                                  *)
(***************************************************************************)
Indexed(h) == FirstHeight <= h /\ h <= top

RECURSIVE SelectSeq2(_, _)
\* The subsequence of s of the elements whose Type is in types.
SelectSeq2(s, types) ==
  IF s = <<>> THEN <<>>
  ELSE IF Head(s).Type \in types THEN <<Head(s)>> \o SelectSeq2(Tail(s), types)
  ELSE SelectSeq2(Tail(s), types)

First == OK(FirstHeight)
Last  == OK(last)
Header(height) == IF Indexed(height) THEN OK(StoredHeader(height)) ELSE Err(ErrNotFound)
HeightForBlock(blockID) ==
  IF \E h \in Heights : Indexed(h) /\ BlockID(h) = blockID
  THEN OK(CHOOSE h \in Heights : Indexed(h) /\ BlockID(h) = blockID)
  ELSE Err(ErrNotFound)
SealsByHeight(height) ==
  IF Indexed(height) THEN OK([i \in 1..NSeals(height) |-> SealID(height, i)])
  ELSE Err(ErrNotFound)
Seal(sealID) ==
  IF \E h \in Heights : Indexed(h) /\ \E i \in 1..NSeals(h) : SealID(h, i) = sealID
  THEN LET h == CHOOSE h \in Heights : \E i \in 1..NSeals(h) : SealID(h, i) = sealID
           i == CHOOSE i \in 1..NSeals(h) : SealID(h, i) = sealID
       IN OK(StoredSeal(h, i))
  ELSE Err(ErrNotFound)
CollectionsByHeight(height) ==
  IF Indexed(height) THEN OK([i \in 1..NColls(height) |-> CollID(height, i)])
  ELSE Err(ErrNotFound)
Guarantee(collID) ==
  IF \E h \in Heights : Indexed(h) /\ \E i \in 1..NColls(h) : CollID(h, i) = collID
  THEN LET h == CHOOSE h \in Heights : \E i \in 1..NColls(h) : CollID(h, i) = collID
           i == CHOOSE i \in 1..NColls(h) : CollID(h, i) = collID
       IN OK(StoredGuarantee(h, i))
  ELSE Err(ErrNotFound)
Collection(collID) ==
  IF \E h \in Heights : Indexed(h) /\ \E i \in 1..NColls(h) : CollID(h, i) = collID
  THEN LET h == CHOOSE h \in Heights : \E i \in 1..NColls(h) : CollID(h, i) = collID
           i == CHOOSE i \in 1..NColls(h) : CollID(h, i) = collID
       IN OK(StoredCollection(h, i))
  ELSE Err(ErrNotFound)
TransactionsByHeight(height) ==
  IF Indexed(height) THEN OK([i \in 1..NTx(height) |-> TxID(height, i)])
  ELSE Err(ErrNotFound)
HeightForTransaction(txID) ==
  IF \E h \in Heights : Indexed(h) /\ \E i \in 1..NTx(h) : TxID(h, i) = txID
  THEN OK(CHOOSE h \in Heights : \E i \in 1..NTx(h) : TxID(h, i) = txID)
  ELSE Err(ErrNotFound)
Transaction(txID) ==
  IF \E h \in Heights : Indexed(h) /\ \E i \in 1..NTx(h) : TxID(h, i) = txID
  THEN LET h == CHOOSE h \in Heights : \E i \in 1..NTx(h) : TxID(h, i) = txID
           i == CHOOSE i \in 1..NTx(h) : TxID(h, i) = txID
       IN OK(StoredTransaction(h, i))
  ELSE Err(ErrNotFound)
Result(txID) ==
  IF \E h \in Heights : Indexed(h) /\ \E i \in 1..NTx(h) : TxID(h, i) = txID
  THEN LET h == CHOOSE h \in Heights : \E i \in 1..NTx(h) : TxID(h, i) = txID
           i == CHOOSE i \in 1..NTx(h) : TxID(h, i) = txID
       IN OK(StoredResult(h, i))
  ELSE Err(ErrNotFound)
\* Events(height, types...): no type means every event of the height.
Events(height, types) ==
  IF ~Indexed(height) THEN Err(ErrNotFound)
  ELSE IF types = <<>> THEN OK(StoredEvents(height))
  ELSE OK(SelectSeq2(StoredEvents(height), {types[i] : i \in 1..Len(types)}))

(***************************************************************************)
(* A call to the index reader or to the script invoker, and the reply the  *)
(* index gives to it in the current state.                                 *)
(***************************************************************************)
C(op, args) == [op |-> op, args |-> args]

IndexOps == {"First", "Last", "Header", "HeightForBlock", "SealsByHeight", "Seal",
             "CollectionsByHeight", "Guarantee", "Collection", "TransactionsByHeight",
             "HeightForTransaction", "Transaction", "Result", "Events"}
InvokerOps == {"Script", "Account"}

IndexReply(c) ==
  CASE c.op = "First" -> First
    [] c.op = "Last" -> Last
    [] c.op = "Header" -> Header(c.args[1])
    [] c.op = "HeightForBlock" -> HeightForBlock(c.args[1])
    [] c.op = "SealsByHeight" -> SealsByHeight(c.args[1])
    [] c.op = "Seal" -> Seal(c.args[1])
    [] c.op = "CollectionsByHeight" -> CollectionsByHeight(c.args[1])
    [] c.op = "Guarantee" -> Guarantee(c.args[1])
    [] c.op = "Collection" -> Collection(c.args[1])
    [] c.op = "TransactionsByHeight" -> TransactionsByHeight(c.args[1])
    [] c.op = "HeightForTransaction" -> HeightForTransaction(c.args[1])
    [] c.op = "Transaction" -> Transaction(c.args[1])
    [] c.op = "Result" -> Result(c.args[1])
    [] c.op = "Events" -> Events(c.args[1], c.args[2])

(***************************************************************************)
(* Conversions of flow-go (engine/common/rpc/convert, hotstuff/signature). *)
(***************************************************************************)
\* decoder.DecodeSignerIDs(header): the signer indices of the header, decoded.
DecodeSignerIDs(header) ==
  IF header.ParentVoterIndices = "valid" THEN OK(<<ID(header)>>)
  ELSE Err(<<"InvalidSignerIndices">>)

\* convert.BlockHeaderToMessage(header, signerIDs)
BlockHeaderToMessage(header, signerIDs) ==
  OK([Height |-> header.Height, Timestamp |-> header.Timestamp, ParentVoterSigData |-> header.ParentVoterSigData,
      Id |-> ID(header), ParentId |-> header.ParentID,
      ParentVoterIds |-> signerIDs, ChainId |-> header.ChainID])

\* convert.MessageToBlockHeader(m)
MessageToBlockHeader(m) ==
  OK([Height |-> m.Height, ParentID |-> m.ParentId, Timestamp |-> m.Timestamp,
      ChainID |-> m.ChainId, ParentVoterSigData |-> m.ParentVoterSigData])

\* ptypes.TimestampProto(t) / timestamppb.New(t): seconds since the epoch.
TimestampProto(t) == IF t >= 0 THEN OK([Seconds |-> t]) ELSE Err(<<"InvalidTimestamp">>)

\* convert.EventToMessage(event)
EventToMessage(e) ==
  [Type |-> e.Type, TransactionIndex |-> e.TransactionIndex, EventIndex |-> e.EventIndex,
   Payload |-> e.Payload, TransactionId |-> e.TransactionID]

\* convert.EventsToMessages(events)
EventsToMessages(ee) == [i \in 1..Len(ee) |-> EventToMessage(ee[i])]

\* convert.TransactionToMessage(tx)
TransactionToMessage(tx) ==
  [Script |-> tx.Script, Payer |-> tx.Payer, ReferenceBlockId |-> tx.ReferenceBlockID]

(***************************************************************************)
(* The handlers of Server.                                                 *)
(***************************************************************************)
Ping(s) == Ret([nil |-> FALSE], 0)

GetBlockHeaderByHeight(Height, s) ==
  IF Len(s) = 0 THEN Call(C("Header", <<Height>>))
  ELSE IF IsErr(s[1])
  THEN Fail(Wrap("could not retrieve block header at height", s[1].err), 1)
  ELSE LET header == s[1].val
           signerIDs == DecodeSignerIDs(header)
       IN IF IsErr(signerIDs)
          THEN Fail(Wrap("could not decode signer ids at height", signerIDs.err), 1)
          ELSE LET blockMsg == BlockHeaderToMessage(header, signerIDs.val)
               IN IF IsErr(blockMsg)
                  THEN Fail(Wrap("could not convert block header to RPC entity", blockMsg.err), 1)
                  ELSE Ret([nil |-> FALSE, Block |-> blockMsg.val], 1)

GetLatestBlockHeader(s) ==
  IF Len(s) = 0 THEN Call(C("Last", <<>>))
  ELSE IF IsErr(s[1]) THEN Fail(Wrap("could not retrieve last block height", s[1].err), 1)
  ELSE After(GetBlockHeaderByHeight(s[1].val, Rest(s, 1)), 1)

GetBlockHeaderByIDIgnoringError(Id, s) ==
  LET blockID == HashToID(Id)
  IN IF Len(s) = 0 THEN Call(C("HeightForBlock", <<blockID>>))
     ELSE After(GetBlockHeaderByHeight(IF IsErr(s[1]) THEN 0 ELSE s[1].val, Rest(s, 1)), 1)

GetBlockHeaderByID(Id, s) ==
  LET blockID == HashToID(Id)
  IN IF Len(s) = 0 THEN Call(C("HeightForBlock", <<blockID>>))
     ELSE IF IsErr(s[1]) THEN Fail(Wrap("could not get height for block", s[1].err), 1)
     ELSE After(GetBlockHeaderByHeight(s[1].val, Rest(s, 1)), 1)

RECURSIVE SealsLoopSkipping(_, _, _, _)
SealsLoopSkipping(sealIDs, i, seals, s) ==
  IF i > Len(sealIDs) THEN Ret(seals, 0)
  ELSE IF Len(s) = 0 THEN Call(C("Seal", <<sealIDs[i]>>))
  ELSE IF IsErr(s[1]) THEN After(SealsLoopSkipping(sealIDs, i + 1, seals, Rest(s, 1)), 1)
  ELSE LET seal == s[1].val
           entity == [BlockId |-> seal.BlockID, ExecutionReceiptId |-> seal.ResultID,
                      ExecutionReceiptSignatures |-> <<>>]
       IN After(SealsLoopSkipping(sealIDs, i + 1, Append(seals, entity), Rest(s, 1)), 1)

RECURSIVE SealsLoop(_, _, _, _)
\* for _, sealID := range sealIDs: from the i-th ID on, with the entities built so far.
SealsLoop(sealIDs, i, seals, s) ==
  IF i > Len(sealIDs) THEN Ret(seals, 0)
  ELSE IF Len(s) = 0 THEN Call(C("Seal", <<sealIDs[i]>>))
  ELSE IF IsErr(s[1]) THEN Fail(Wrap("could not get seal with ID", s[1].err), 1)
  ELSE LET seal == s[1].val
           entity == [BlockId |-> seal.BlockID, ExecutionReceiptId |-> seal.ResultID,
                      ExecutionReceiptSignatures |-> <<>>]
       IN After(SealsLoop(sealIDs, i + 1, Append(seals, entity), Rest(s, 1)), 1)

RECURSIVE GuaranteesLoopReversed(_, _, _, _)
GuaranteesLoopReversed(collIDs, i, collections, s) ==
  IF i > Len(collIDs) THEN Ret(collections, 0)
  ELSE IF Len(s) = 0 THEN Call(C("Guarantee", <<collIDs[i]>>))
  ELSE IF IsErr(s[1]) THEN Fail(Wrap("could not get collection with ID", s[1].err), 1)
  ELSE LET guarantee == s[1].val
           entity == [CollectionId |-> IDToHash(collIDs[i]),
                      Signatures |-> <<guarantee.Signature>>]
       IN After(GuaranteesLoopReversed(collIDs, i + 1, <<entity>> \o collections, Rest(s, 1)), 1)

RECURSIVE GuaranteesLoop(_, _, _, _)
\* for _, collID := range collIDs: from the i-th ID on, with the entities built so far.
GuaranteesLoop(collIDs, i, collections, s) ==
  IF i > Len(collIDs) THEN Ret(collections, 0)
  ELSE IF Len(s) = 0 THEN Call(C("Guarantee", <<collIDs[i]>>))
  ELSE IF IsErr(s[1]) THEN Fail(Wrap("could not get collection with ID", s[1].err), 1)
  ELSE LET guarantee == s[1].val
           entity == [CollectionId |-> IDToHash(collIDs[i]),
                      Signatures |-> <<guarantee.Signature>>]
       IN After(GuaranteesLoop(collIDs, i + 1, Append(collections, entity), Rest(s, 1)), 1)

GetBlockByHeight(Height, s) ==
  IF Len(s) = 0 THEN Call(C("Header", <<Height>>))
  ELSE IF IsErr(s[1]) THEN Fail(Wrap("could not get header for height", s[1].err), 1)
  ELSE IF Len(s) = 1 THEN Call(C("SealsByHeight", <<Height>>))
  ELSE IF IsErr(s[2]) THEN Fail(Wrap("could not get seals for height", s[2].err), 2)
  ELSE LET header == s[1].val
           sl == After(SealsLoop(s[2].val, 1, <<>>, Rest(s, 2)), 2)
       IN IF sl.k # "ret" \/ sl.err # NoErr THEN sl
          ELSE LET n == sl.used
               IN IF Len(s) = n THEN Call(C("CollectionsByHeight", <<Height>>))
                  ELSE IF IsErr(s[n + 1])
                  THEN Fail(Wrap("could not get collections for height", s[n + 1].err), n + 1)
                  ELSE LET gl == After(GuaranteesLoop(s[n + 1].val, 1, <<>>, Rest(s, n + 1)), n + 1)
                       IN IF gl.k # "ret" \/ gl.err # NoErr THEN gl
                          ELSE Ret([nil |-> FALSE,
                                    Block |-> [Height |-> Height,
                                               Timestamp |-> [Seconds |-> header.Timestamp],
                                               Id |-> ID(header),
                                               ParentId |-> header.ParentID,
                                               Signatures |-> <<header.ParentVoterSigData>>,
                                               CollectionGuarantees |-> gl.resp,
                                               BlockSeals |-> sl.resp]],
                                   gl.used)

GetLatestBlockRereading(s) ==
  IF Len(s) = 0 THEN Call(C("Last", <<>>))
  ELSE IF IsErr(s[1]) THEN Fail(Wrap("could not get last height", s[1].err), 1)
  ELSE IF Len(s) = 1 THEN Call(C("Last", <<>>))
  ELSE IF IsErr(s[2]) THEN Fail(Wrap("could not get last height", s[2].err), 2)
  ELSE After(GetBlockByHeight(s[2].val, Rest(s, 2)), 2)

GetLatestBlock(s) ==
  IF Len(s) = 0 THEN Call(C("Last", <<>>))
  ELSE IF IsErr(s[1]) THEN Fail(Wrap("could not get last height", s[1].err), 1)
  ELSE After(GetBlockByHeight(s[1].val, Rest(s, 1)), 1)

GetBlockByIDOfParent(Id, s) ==
  LET blockID == HashToID(Id)
  IN IF Len(s) = 0 THEN Call(C("HeightForBlock", <<blockID>>))
     ELSE IF IsErr(s[1]) THEN Fail(Wrap("could not get height for block", s[1].err), 1)
     ELSE After(GetBlockByHeight(s[1].val - 1, Rest(s, 1)), 1)

GetBlockByID(Id, s) ==
  LET blockID == HashToID(Id)
  IN IF Len(s) = 0 THEN Call(C("HeightForBlock", <<blockID>>))
     ELSE IF IsErr(s[1]) THEN Fail(Wrap("could not get height for block", s[1].err), 1)
     ELSE After(GetBlockByHeight(s[1].val, Rest(s, 1)), 1)

GetCollectionByID(Id, s) ==
  LET collID == HashToID(Id)
  IN IF Len(s) = 0 THEN Call(C("Collection", <<collID>>))
     ELSE IF IsErr(s[1]) THEN Fail(Wrap("could not retrieve collection with ID", s[1].err), 1)
     ELSE LET collection == s[1].val
          IN Ret([nil |-> FALSE,
                  Collection |-> [Id |-> Id,
                                  TransactionIds |->
                                    [i \in 1..Len(collection.Transactions) |->
                                       IDToHash(collection.Transactions[i])]]], 1)

GetTransaction(Id, s) ==
  LET txID == HashToID(Id)
  IN IF Len(s) = 0 THEN Call(C("Transaction", <<txID>>))
     ELSE IF IsErr(s[1]) THEN Fail(Wrap("could not retrieve transaction", s[1].err), 1)
     ELSE Ret([nil |-> FALSE, Transaction |-> TransactionToMessage(s[1].val)], 1)

SEALED   == "SEALED"
EXECUTED == "EXECUTED"

StatusCodeNegated(result) == IF result.ErrorMessage # "" THEN 1 ELSE 0

\* statusCode := uint32(0); if result.ErrorMessage == "" { statusCode = 1 }
StatusCode(result) == IF result.ErrorMessage = "" THEN 1 ELSE 0

TransactionStatusAtOrAbove(height, sealedHeight) ==
  IF height >= sealedHeight THEN EXECUTED ELSE SEALED

\* status := SEALED; if height > sealedHeight { status = EXECUTED }
TransactionStatus(height, sealedHeight) == IF height > sealedHeight THEN EXECUTED ELSE SEALED

GetTransactionResult(Id, s) ==
  LET txID == HashToID(Id)
  IN IF Len(s) = 0 THEN Call(C("Result", <<txID>>))
     ELSE IF IsErr(s[1]) THEN Fail(Wrap("could not retrieve transaction result", s[1].err), 1)
     ELSE IF Len(s) = 1 THEN Call(C("HeightForTransaction", <<txID>>))
     ELSE IF IsErr(s[2]) THEN Fail(Wrap("could not retrieve block height", s[2].err), 2)
     ELSE IF Len(s) = 2 THEN Call(C("Header", <<s[2].val>>))
     ELSE IF IsErr(s[3]) THEN Fail(Wrap("could not retrieve block header", s[3].err), 3)
     ELSE IF Len(s) = 3 THEN Call(C("Last", <<>>))
     ELSE IF IsErr(s[4]) THEN Fail(Wrap("could not retrieve last height", s[4].err), 4)
     ELSE IF Len(s) = 4 THEN Call(C("Events", <<s[2].val, <<>> >>))
     ELSE IF IsErr(s[5]) THEN Fail(Wrap("could not retrieve events", s[5].err), 5)
     ELSE LET result == s[1].val
              height == s[2].val
              blockID == ID(s[3].val)
              statusCode == StatusCode(result)
              sealedHeight == s[4].val
              status == TransactionStatus(height, sealedHeight)
              events == s[5].val
          IN Ret([nil |-> FALSE,
                  ErrorMessage |-> result.ErrorMessage,
                  Events |-> EventsToMessages(events),
                  BlockId |-> blockID,
                  StatusCode |-> statusCode,
                  Status |-> status], 5)

RECURSIVE TransactionResultsLoopSkipping(_, _, _, _)
TransactionResultsLoopSkipping(transactions, i, transactionResults, s) ==
  IF i > Len(transactions) THEN Ret(transactionResults, 0)
  ELSE LET response == GetTransactionResult(IDToHash(transactions[i]), s)
       IN IF response.k # "ret" THEN response
          ELSE After(TransactionResultsLoopSkipping(transactions, i + 1,
                                                    IF response.err # NoErr
                                                    THEN transactionResults
                                                    ELSE Append(transactionResults, response.resp),
                                                    Rest(s, response.used)),
                     response.used)

RECURSIVE TransactionResultsLoop(_, _, _, _)
\* for _, transaction := range transactions: from the i-th ID on.
TransactionResultsLoop(transactions, i, transactionResults, s) ==
  IF i > Len(transactions) THEN Ret(transactionResults, 0)
  ELSE LET response == GetTransactionResult(IDToHash(transactions[i]), s)
       IN IF response.k # "ret" THEN response
          ELSE IF response.err # NoErr
          THEN Fail(Wrap("could not get transaction for id", response.err), response.used)
          ELSE After(TransactionResultsLoop(transactions, i + 1,
                                            Append(transactionResults, response.resp),
                                            Rest(s, response.used)),
                     response.used)

GetTransactionResultsByBlockID(BlockId, s) ==
  LET blockId == HashToID(BlockId)
  IN IF Len(s) = 0 THEN Call(C("HeightForBlock", <<blockId>>))
     ELSE IF IsErr(s[1]) THEN Fail(Wrap("could not get height for block", s[1].err), 1)
     ELSE IF Len(s) = 1 THEN Call(C("TransactionsByHeight", <<s[1].val>>))
     ELSE IF IsErr(s[2]) THEN Fail(Wrap("could not get transactions for height", s[2].err), 2)
     ELSE LET l == After(TransactionResultsLoop(s[2].val, 1, <<>>, Rest(s, 2)), 2)
          IN IF l.k # "ret" \/ l.err # NoErr THEN l
             ELSE Ret([nil |-> FALSE, TransactionResults |-> l.resp], l.used)

\* The first result of results one of whose events has TransactionIndex = Index;
\* 0 when there is none.
FirstMatch(results, Index) ==
  LET hit(i) == \E j \in 1..Len(results[i].Events) :
                   results[i].Events[j].TransactionIndex = Index
  IN IF \E i \in 1..Len(results) : hit(i)
     THEN CHOOSE i \in 1..Len(results) : hit(i) /\ \A j \in 1..(i - 1) : ~hit(j)
     ELSE 0

GetTransactionResultByIndex(BlockId, Index, s) ==
  LET resp == GetTransactionResultsByBlockID(BlockId, s)
  IN IF resp.k # "ret" THEN resp
     \* resp is nil when err is not: resp.TransactionResults dereferences it.
     ELSE IF resp.err # NoErr THEN Panic
     ELSE LET m == FirstMatch(resp.resp.TransactionResults, Index)
          IN IF m # 0 THEN Ret(resp.resp.TransactionResults[m], resp.used)
             ELSE Fail(Wrap("could not get transactions for index", resp.err), resp.used)

\* blueprints.SystemChunkTransaction(chain), as a message.
SystemChunkTransaction(chain) == [Script |-> "system", ReferenceBlockID |-> <<0, 0>>, Payer |-> 0]

RECURSIVE TransactionsLoop(_, _, _, _)
\* for _, transaction := range transactions: from the i-th ID on.
TransactionsLoop(transactions, i, transactionsEntity, s) ==
  IF i > Len(transactions) THEN Ret(transactionsEntity, 0)
  ELSE LET resp == GetTransaction(IDToHash(transactions[i]), s)
       IN IF resp.k # "ret" THEN resp
          ELSE IF resp.err # NoErr
          THEN Fail(Wrap("could not get transactions for id", resp.err), resp.used)
          ELSE After(TransactionsLoop(transactions, i + 1,
                                      Append(transactionsEntity, resp.resp.Transaction),
                                      Rest(s, resp.used)),
                     resp.used)

GetTransactionsByBlockID(BlockId, s) ==
  LET blockId == HashToID(BlockId)
  IN IF Len(s) = 0 THEN Call(C("HeightForBlock", <<blockId>>))
     ELSE IF IsErr(s[1]) THEN Fail(Wrap("could not get height for block", s[1].err), 1)
     ELSE LET height == s[1].val
              headerResp == After(GetBlockHeaderByHeight(height, Rest(s, 1)), 1)
          IN IF headerResp.k # "ret" THEN headerResp
             ELSE IF headerResp.err # NoErr
             THEN Fail(Wrap("could not get header for height", headerResp.err), headerResp.used)
             ELSE LET header == MessageToBlockHeader(headerResp.resp.Block)
                      n == headerResp.used
                  IN IF IsErr(header)
                     THEN Fail(Wrap("could not convert header for height", header.err), n)
                     ELSE IF Len(s) = n THEN Call(C("TransactionsByHeight", <<height>>))
                     ELSE IF IsErr(s[n + 1])
                     THEN Fail(Wrap("could not get transactions for height", s[n + 1].err), n + 1)
                     ELSE LET l == After(TransactionsLoop(s[n + 1].val, 1, <<>>, Rest(s, n + 1)),
                                         n + 1)
                          IN IF l.k # "ret" \/ l.err # NoErr THEN l
                             ELSE Ret([nil |-> FALSE,
                                       Transactions |->
                                         Append(l.resp,
                                                TransactionToMessage(
                                                  SystemChunkTransaction(header.val.ChainID)))],
                                      l.used)

(***************************************************************************)
(* Accounts and scripts: the script invoker and the value encoding.        *)
(***************************************************************************)
AddressLength == 2

\* flow.BytesToAddress(b): the last AddressLength bytes of b, right-aligned.
BytesToAddress(b) ==
  LET n == Len(b)
      tail == IF n > AddressLength THEN SubSeq(b, n - AddressLength + 1, n) ELSE b
  IN [i \in 1..AddressLength |->
        IF i + Len(tail) > AddressLength THEN tail[(i + Len(tail)) - AddressLength] ELSE 0]

KnownAddress == <<0, 1>>

\* invoker.Account(height, address): the account as of the end of the block at height.
Account(height, address) ==
  IF Indexed(height) /\ address = KnownAddress
  THEN OK([Address |-> address, Balance |-> 1000 + height])
  ELSE Err(ErrInvoker)

\* convert.AccountToMessage(account)
AccountToMessage(a) == OK([Address |-> a.Address, Balance |-> a.Balance])

\* cadence/encoding/json: a value on the wire is {"type": ..., "value": ...}; an
\* integer is written in decimal, and read by big.Int.SetString.
ParseInt(lit) ==
  CASE lit = "1" -> OK(1) [] lit = "01" -> OK(1) [] lit = "2" -> OK(2)
    [] OTHER -> Err(<<"invalid integer">>)
FormatInt(n) == CASE n = 1 -> "1" [] n = 2 -> "2" [] OTHER -> "0"

\* json.Decode(nil, arg)
Decode(arg) ==
  IF arg.type = "Int"
  THEN LET n == ParseInt(arg.value)
       IN IF IsErr(n) THEN n ELSE OK([Type |-> "Int", Value |-> n.val])
  ELSE IF arg.type = "Void" THEN OK([Type |-> "Void", Value |-> 0])
  ELSE Err(<<"invalid type">>)

EncodeUntyped(value) == OK([type |-> "Void", value |-> ""])

\* json.Encode(value)
Encode(value) ==
  IF value.Type = "Int" THEN OK([type |-> "Int", value |-> FormatInt(value.Value)])
  ELSE OK([type |-> "Void", value |-> ""])

\* invoker.Script(height, script, arguments): the script of the model returns
\* its first argument, or Void when it has none.
Script(height, script, arguments) ==
  IF Indexed(height)
  THEN OK(IF Len(arguments) > 0 THEN arguments[1] ELSE [Type |-> "Void", Value |-> 0])
  ELSE Err(ErrInvoker)

InvokerReply(c) ==
  CASE c.op = "Account" -> Account(c.args[1], c.args[2])
    [] c.op = "Script" -> Script(c.args[1], c.args[2], c.args[3])

GetAccountAtBlockHeight(Address, BlockHeight, s) ==
  IF Len(s) = 0 THEN Call(C("Account", <<BlockHeight, BytesToAddress(Address)>>))
  ELSE IF IsErr(s[1]) THEN Fail(Wrap("could not get account", s[1].err), 1)
  ELSE LET accountMsg == AccountToMessage(s[1].val)
       IN IF IsErr(accountMsg)
          THEN Fail(Wrap("could not convert account to RPC message", accountMsg.err), 1)
          ELSE Ret([nil |-> FALSE, Account |-> accountMsg.val], 1)

GetAccountAtLatestBlock(Address, s) ==
  IF Len(s) = 0 THEN Call(C("Last", <<>>))
  ELSE IF IsErr(s[1]) THEN Fail(Wrap("could not get height", s[1].err), 1)
  ELSE After(GetAccountAtBlockHeight(Address, s[1].val, Rest(s, 1)), 1)

GetAccount(Address, s) ==
  LET account == GetAccountAtLatestBlock(Address, s)
  IN IF account.k # "ret" THEN account
     ELSE IF account.err # NoErr THEN Fail(account.err, account.used)
     ELSE Ret([nil |-> FALSE, Account |-> account.resp.Account], account.used)

RECURSIVE DecodeLoopSkipping(_, _, _)
DecodeLoopSkipping(Arguments, i, args) ==
  IF i > Len(Arguments) THEN OK(args)
  ELSE LET val == Decode(Arguments[i])
       IN IF IsErr(val) THEN DecodeLoopSkipping(Arguments, i + 1, args)
          ELSE DecodeLoopSkipping(Arguments, i + 1, Append(args, val.val))

RECURSIVE DecodeLoop(_, _, _)
\* for _, arg := range in.Arguments: the decoded values, or the first error.
DecodeLoop(Arguments, i, args) ==
  IF i > Len(Arguments) THEN OK(args)
  ELSE LET val == Decode(Arguments[i])
       IN IF IsErr(val) THEN Err(Wrap("could not decode script argument", val.err))
          ELSE DecodeLoop(Arguments, i + 1, Append(args, val.val))

ExecuteScriptAtBlockHeightRetrying(BlockHeight, Script_, Arguments, s) ==
  LET args == DecodeLoop(Arguments, 1, <<>>)
  IN IF IsErr(args) THEN Fail(args.err, 0)
     ELSE IF Len(s) = 0 THEN Call(C("Script", <<BlockHeight, Script_, args.val>>))
     ELSE IF IsErr(s[1]) /\ Len(s) = 1 THEN Call(C("Script", <<BlockHeight, Script_, args.val>>))
     ELSE LET n == IF IsErr(s[1]) THEN 2 ELSE 1
          IN IF IsErr(s[n]) THEN Fail(Wrap("could not execute script", s[n].err), n)
             ELSE LET result == Encode(s[n].val)
                  IN IF IsErr(result)
                     THEN Fail(Wrap("could not encode script result", result.err), n)
                     ELSE Ret([nil |-> FALSE, Value |-> result.val], n)

ExecuteScriptAtBlockHeight(BlockHeight, Script_, Arguments, s) ==
  LET args == DecodeLoop(Arguments, 1, <<>>)
  IN IF IsErr(args) THEN Fail(args.err, 0)
     ELSE IF Len(s) = 0 THEN Call(C("Script", <<BlockHeight, Script_, args.val>>))
     ELSE IF IsErr(s[1]) THEN Fail(Wrap("could not execute script", s[1].err), 1)
     ELSE LET result == Encode(s[1].val)
          IN IF IsErr(result) THEN Fail(Wrap("could not encode script result", result.err), 1)
             ELSE Ret([nil |-> FALSE, Value |-> result.val], 1)

ExecuteScriptAtLatestBlock(Script_, Arguments, s) ==
  IF Len(s) = 0 THEN Call(C("Last", <<>>))
  ELSE IF IsErr(s[1]) THEN Fail(Wrap("could not get last height", s[1].err), 1)
  ELSE After(ExecuteScriptAtBlockHeight(s[1].val, Script_, Arguments, Rest(s, 1)), 1)

ExecuteScriptAtBlockID(BlockId, Script_, Arguments, s) ==
  LET blockID == HashToID(BlockId)
  IN IF Len(s) = 0 THEN Call(C("HeightForBlock", <<blockID>>))
     ELSE IF IsErr(s[1]) THEN Fail(Wrap("could not get height for block ID", s[1].err), 1)
     ELSE After(ExecuteScriptAtBlockHeight(s[1].val, Script_, Arguments, Rest(s, 1)), 1)

(***************************************************************************)
(* Events.                                                                 *)
(***************************************************************************)
\* var types []flow.EventType; if in.Type != "" { types = append(types, ...) }
EventTypes(Type) == IF Type # "" THEN <<Type>> ELSE <<>>

InRangeExclusive(height, EndHeight) == height < EndHeight

\* The loop condition height <= in.EndHeight.
InRange(height, EndHeight) == height <= EndHeight

RECURSIVE HeightRangeLoopPartial(_, _, _, _, _)
HeightRangeLoopPartial(types, height, EndHeight, events, s) ==
  IF ~InRange(height, EndHeight) THEN Ret(events, 0)
  ELSE IF Len(s) = 0 THEN Call(C("Events", <<height, types>>))
  ELSE IF IsErr(s[1]) THEN Ret(events, 1)
  ELSE IF Len(s) = 1 THEN Call(C("Header", <<height>>))
  ELSE IF IsErr(s[2]) THEN Ret(events, 2)
  ELSE LET ee == s[1].val
           header == s[2].val
           timestamp == TimestampProto(header.Timestamp)
       IN IF IsErr(timestamp) THEN Ret(events, 2)
          ELSE LET result == [Events |-> EventsToMessages(ee),
                              BlockId |-> ID(header),
                              BlockHeight |-> height,
                              BlockTimestamp |-> timestamp.val]
               IN After(HeightRangeLoopPartial(types, height + 1, EndHeight,
                                               Append(events, result), Rest(s, 2)), 2)

RECURSIVE HeightRangeLoop(_, _, _, _, _)
\* for height := in.StartHeight; height <= in.EndHeight; height++
HeightRangeLoop(types, height, EndHeight, events, s) ==
  IF ~InRange(height, EndHeight) THEN Ret(events, 0)
  ELSE IF Len(s) = 0 THEN Call(C("Events", <<height, types>>))
  ELSE IF IsErr(s[1]) THEN Fail(Wrap("could not get events at height", s[1].err), 1)
  ELSE IF Len(s) = 1 THEN Call(C("Header", <<height>>))
  ELSE IF IsErr(s[2]) THEN Fail(Wrap("could not get header at height", s[2].err), 2)
  ELSE LET ee == s[1].val
           header == s[2].val
           timestamp == TimestampProto(header.Timestamp)
       IN IF IsErr(timestamp)
          THEN Fail(Wrap("could not parse timestamp for block at height", timestamp.err), 2)
          ELSE LET result == [Events |-> EventsToMessages(ee),
                              BlockId |-> ID(header),
                              BlockHeight |-> height,
                              BlockTimestamp |-> timestamp.val]
               IN After(HeightRangeLoop(types, height + 1, EndHeight,
                                        Append(events, result), Rest(s, 2)), 2)

GetEventsForHeightRange(Type, StartHeight, EndHeight, s) ==
  LET l == HeightRangeLoop(EventTypes(Type), StartHeight, EndHeight, <<>>, s)
  IN IF l.k # "ret" \/ l.err # NoErr THEN l
     ELSE Ret([nil |-> FALSE, Results |-> l.resp], l.used)

PrependResult(events, result) == <<result>> \o events

\* events = append(events, &result)
AppendResult(events, result) == Append(events, result)

RECURSIVE BlockIDsLoop(_, _, _, _, _)
\* for _, id := range in.BlockIds: from the i-th ID on.
BlockIDsLoop(types, BlockIds, i, events, s) ==
  IF i > Len(BlockIds) THEN Ret(events, 0)
  ELSE LET blockID == HashToID(BlockIds[i])
       IN IF Len(s) = 0 THEN Call(C("HeightForBlock", <<blockID>>))
          ELSE IF IsErr(s[1])
          THEN Fail(Wrap("could not get height of block with ID", s[1].err), 1)
          ELSE IF Len(s) = 1 THEN Call(C("Events", <<s[1].val, types>>))
          ELSE IF IsErr(s[2]) THEN Fail(Wrap("could not get events at height", s[2].err), 2)
          ELSE IF Len(s) = 2 THEN Call(C("Header", <<s[1].val>>))
          ELSE IF IsErr(s[3]) THEN Fail(Wrap("could not get header at height", s[3].err), 3)
          ELSE LET height == s[1].val
                   ee == s[2].val
                   header == s[3].val
                   timestamp == TimestampProto(header.Timestamp)
               IN IF IsErr(timestamp)
                  THEN Fail(Wrap("could not parse timestamp for block at height",
                                 timestamp.err), 3)
                  ELSE LET result == [Events |-> EventsToMessages(ee),
                                      BlockId |-> blockID,
                                      BlockHeight |-> height,
                                      BlockTimestamp |-> timestamp.val]
                       IN After(BlockIDsLoop(types, BlockIds, i + 1,
                                             AppendResult(events, result), Rest(s, 3)), 3)

GetEventsForBlockIDs(Type, BlockIds, s) ==
  LET l == BlockIDsLoop(EventTypes(Type), BlockIds, 1, <<>>, s)
  IN IF l.k # "ret" \/ l.err # NoErr THEN l
     ELSE Ret([nil |-> FALSE, Results |-> l.resp], l.used)

GetNetworkParameters(s) ==
  IF Len(s) = 0 THEN Call(C("First", <<>>))
  ELSE IF IsErr(s[1]) THEN Fail(Wrap("could not get first indexed height", s[1].err), 1)
  ELSE IF Len(s) = 1 THEN Call(C("Header", <<s[1].val>>))
  ELSE IF IsErr(s[2]) THEN Fail(Wrap("could not get header", s[2].err), 2)
  ELSE Ret([nil |-> FALSE, ChainId |-> s[2].val.ChainID], 2)

(***************************************************************************)
(* The endpoints the server does not implement.                            *)
(***************************************************************************)
GetExecutionResultForBlockID(BlockId, s) ==
  Fail(<<"GetExecutionResultForBlockID is not implemented by the Flow DPS API; please use the Flow Access API on a Flow access node directly">>, 0)

SendTransactionForwarded(Transaction_, s) ==
  IF Len(s) = 0 THEN Call(C("Last", <<>>))
  ELSE IF IsErr(s[1]) THEN Fail(Wrap("could not get last height", s[1].err), 1)
  ELSE Ret([nil |-> FALSE], 1)

SendTransaction(Transaction_, s) ==
  Fail(<<"SendTransaction is not implemented by the Flow DPS API; please use the Flow Access API on a Flow access node directly">>, 0)

GetLatestProtocolStateSnapshot(s) ==
  Fail(<<"GetLatestProtocolSnapshot is not implemented by the Flow DPS API; please use the Flow Access API on a Flow access node directly">>, 0)

(***************************************************************************)
(* The requests a client sends.                                            *)
(***************************************************************************)
SeqsUpTo(S, n) == UNION {[1..k -> S] : k \in 0..n}

HeightInputs    == 0..(MaxHeight + 1)
\* <<FirstHeight + 1>> is one byte short: HashToID pads it to the ID of an even
\* height; <<FirstHeight, 1, 7>> is one byte long: HashToID cuts the 7.
BlockIDInputs   == {BlockID(h) : h \in Heights}
                     \cup {AbsentID, <<FirstHeight + 1>>, <<FirstHeight, FirstHeight % 2, 7>>}
TxIDInputs      == UNION {{TxID(h, i) : i \in 1..NTx(h)} : h \in Heights} \cup {AbsentID}
CollIDInputs    == UNION {{CollID(h, i) : i \in 1..NColls(h)} : h \in Heights} \cup {AbsentID}
IndexInputs     == 0..2
EventTypeInputs == {"", "A", "C"}
EventIDInputs   == {BlockID(FirstHeight), BlockID(FirstHeight + 1), <<FirstHeight + 1>>, AbsentID}
ScriptIDInputs  == {BlockID(FirstHeight), BlockID(MaxHeight), AbsentID}
AddressInputs   == {<<0, 1>>, <<1>>, <<5, 0, 1>>, <<0, 2>>}
ScriptInputs    == {"echo"}
WireInputs      == {[type |-> "Int", value |-> "1"], [type |-> "Int", value |-> "01"],
                    [type |-> "Int", value |-> "x"]}
TransactionInputs == {"tx1", "tx2"}

Handler(r, s) ==
  CASE r.ep = "Ping" -> Ping(s)
    [] r.ep = "GetLatestBlockHeader" -> GetLatestBlockHeader(s)
    [] r.ep = "GetBlockHeaderByID" -> GetBlockHeaderByID(r.Id, s)
    [] r.ep = "GetBlockHeaderByHeight" -> GetBlockHeaderByHeight(r.Height, s)
    [] r.ep = "GetLatestBlock" -> GetLatestBlock(s)
    [] r.ep = "GetBlockByID" -> GetBlockByID(r.Id, s)
    [] r.ep = "GetBlockByHeight" -> GetBlockByHeight(r.Height, s)
    [] r.ep = "GetCollectionByID" -> GetCollectionByID(r.Id, s)
    [] r.ep = "GetTransaction" -> GetTransaction(r.Id, s)
    [] r.ep = "GetTransactionResult" -> GetTransactionResult(r.Id, s)
    [] r.ep = "GetTransactionResultByIndex" -> GetTransactionResultByIndex(r.BlockId, r.Index, s)
    [] r.ep = "GetTransactionResultsByBlockID" -> GetTransactionResultsByBlockID(r.BlockId, s)
    [] r.ep = "GetTransactionsByBlockID" -> GetTransactionsByBlockID(r.BlockId, s)
    [] r.ep = "GetAccount" -> GetAccount(r.Address, s)
    [] r.ep = "GetAccountAtLatestBlock" -> GetAccountAtLatestBlock(r.Address, s)
    [] r.ep = "GetAccountAtBlockHeight" -> GetAccountAtBlockHeight(r.Address, r.BlockHeight, s)
    [] r.ep = "ExecuteScriptAtLatestBlock" -> ExecuteScriptAtLatestBlock(r.Script, r.Arguments, s)
    [] r.ep = "ExecuteScriptAtBlockID" ->
         ExecuteScriptAtBlockID(r.BlockId, r.Script, r.Arguments, s)
    [] r.ep = "ExecuteScriptAtBlockHeight" ->
         ExecuteScriptAtBlockHeight(r.BlockHeight, r.Script, r.Arguments, s)
    [] r.ep = "GetEventsForHeightRange" ->
         GetEventsForHeightRange(r.Type, r.StartHeight, r.EndHeight, s)
    [] r.ep = "GetEventsForBlockIDs" -> GetEventsForBlockIDs(r.Type, r.BlockIds, s)
    [] r.ep = "GetNetworkParameters" -> GetNetworkParameters(s)
    [] r.ep = "GetExecutionResultForBlockID" -> GetExecutionResultForBlockID(r.BlockId, s)
    [] r.ep = "SendTransaction" -> SendTransaction(r.Transaction, s)
    [] r.ep = "GetLatestProtocolStateSnapshot" -> GetLatestProtocolStateSnapshot(s)

(***************************************************************************)
(* The state machine: the index grows, and the server handles one request  *)
(* at a time, one call to the index or the invoker per step.                *)
(***************************************************************************)
NoReq == [ep |-> "none"]
NoOut == [err |-> NoErr, resp |-> NilResp]

Init ==
  /\ top = FirstHeight
  /\ last = FirstHeight
  /\ phase = "idle"
  /\ req = NoReq
  /\ rs = <<>>
  /\ calls = <<>>
  /\ out = NoOut

\* The indexer writes the data of the next height ...
IndexHeight ==
  /\ top < MaxHeight
  /\ top' = top + 1
  /\ UNCHANGED <<last, phase, req, rs, calls, out>>

AdvanceLastOrRollBack ==
  /\ \/ last < top /\ last' = last + 1
     \/ last > FirstHeight /\ last' = last - 1
  /\ UNCHANGED <<top, phase, req, rs, calls, out>>

\* ... and then moves Last() to it.
AdvanceLast ==
  /\ last < top
  /\ last' = last + 1
  /\ UNCHANGED <<top, phase, req, rs, calls, out>>

\* The GRPC server hands a request to its handler.
Begin(r) ==
  /\ phase \in {"idle", "done"}
  /\ phase' = "running"
  /\ req' = r
  /\ rs' = <<>>
  /\ calls' = <<>>
  /\ out' = NoOut
  /\ UNCHANGED <<top, last>>

RecvPing == Begin([ep |-> "Ping"])
RecvGetLatestBlockHeader == Begin([ep |-> "GetLatestBlockHeader"])
RecvGetBlockHeaderByID == \E id \in BlockIDInputs : Begin([Id |-> id, ep |-> "GetBlockHeaderByID"])
RecvGetBlockHeaderByHeight ==
  \E h \in HeightInputs : Begin([Height |-> h, ep |-> "GetBlockHeaderByHeight"])
RecvGetLatestBlock == Begin([ep |-> "GetLatestBlock"])
RecvGetBlockByID == \E id \in BlockIDInputs : Begin([Id |-> id, ep |-> "GetBlockByID"])
RecvGetBlockByHeight == \E h \in HeightInputs : Begin([Height |-> h, ep |-> "GetBlockByHeight"])
RecvGetCollectionByID == \E id \in CollIDInputs : Begin([Id |-> id, ep |-> "GetCollectionByID"])
RecvGetTransaction == \E id \in TxIDInputs : Begin([Id |-> id, ep |-> "GetTransaction"])
RecvGetTransactionResult ==
  \E id \in TxIDInputs : Begin([Id |-> id, ep |-> "GetTransactionResult"])
RecvGetTransactionResultByIndex ==
  \E id \in BlockIDInputs, i \in IndexInputs :
    Begin([BlockId |-> id, Index |-> i, ep |-> "GetTransactionResultByIndex"])
RecvGetTransactionResultsByBlockID ==
  \E id \in BlockIDInputs : Begin([BlockId |-> id, ep |-> "GetTransactionResultsByBlockID"])
RecvGetTransactionsByBlockID ==
  \E id \in BlockIDInputs : Begin([BlockId |-> id, ep |-> "GetTransactionsByBlockID"])
RecvGetAccount == \E a \in AddressInputs : Begin([Address |-> a, ep |-> "GetAccount"])
RecvGetAccountAtLatestBlock ==
  \E a \in AddressInputs : Begin([Address |-> a, ep |-> "GetAccountAtLatestBlock"])
RecvGetAccountAtBlockHeight ==
  \E a \in AddressInputs, h \in HeightInputs :
    Begin([Address |-> a, BlockHeight |-> h, ep |-> "GetAccountAtBlockHeight"])
RecvExecuteScriptAtLatestBlock ==
  \E sc \in ScriptInputs, as \in SeqsUpTo(WireInputs, MaxArgs) :
    Begin([Script |-> sc, Arguments |-> as, ep |-> "ExecuteScriptAtLatestBlock"])
RecvExecuteScriptAtBlockID ==
  \E id \in ScriptIDInputs, sc \in ScriptInputs, as \in SeqsUpTo(WireInputs, MaxArgs) :
    Begin([Script |-> sc, BlockId |-> id, Arguments |-> as, ep |-> "ExecuteScriptAtBlockID"])
RecvExecuteScriptAtBlockHeight ==
  \E h \in HeightInputs, sc \in ScriptInputs, as \in SeqsUpTo(WireInputs, MaxArgs) :
    Begin([Script |-> sc, BlockHeight |-> h, Arguments |-> as,
           ep |-> "ExecuteScriptAtBlockHeight"])
RecvGetEventsForHeightRange ==
  \E ty \in EventTypeInputs, a \in HeightInputs, b \in HeightInputs :
    Begin([Type |-> ty, EndHeight |-> b, StartHeight |-> a, ep |-> "GetEventsForHeightRange"])
RecvGetEventsForBlockIDs ==
  \E ty \in EventTypeInputs, ids \in SeqsUpTo(EventIDInputs, MaxIDs) :
    Begin([Type |-> ty, BlockIds |-> ids, ep |-> "GetEventsForBlockIDs"])
RecvGetNetworkParameters == Begin([ep |-> "GetNetworkParameters"])
RecvGetExecutionResultForBlockID ==
  \E id \in ScriptIDInputs : Begin([BlockId |-> id, ep |-> "GetExecutionResultForBlockID"])
RecvSendTransaction ==
  \E tx \in TransactionInputs : Begin([Transaction |-> tx, ep |-> "SendTransaction"])
RecvGetLatestProtocolStateSnapshot == Begin([ep |-> "GetLatestProtocolStateSnapshot"])

AnswerAdvancing(o, ops, fault) ==
  /\ o.k = "call"
  /\ o.call.op \in ops
  /\ rs' = Append(rs, IF fault # NoErr THEN Err(fault)
                      ELSE IF o.call.op \in IndexOps THEN IndexReply(o.call)
                      ELSE InvokerReply(o.call))
  /\ calls' = Append(calls, o.call)
  /\ last' = top
  /\ UNCHANGED <<top, phase, req, out>>

\* The pending call o.call of the handler is made and answered: by the callee
\* when fault is nil, with the error fault otherwise.
Answer(o, ops, fault) ==
  /\ o.k = "call"
  /\ o.call.op \in ops
  /\ rs' = Append(rs, IF fault # NoErr THEN Err(fault)
                      ELSE IF o.call.op \in IndexOps THEN IndexReply(o.call)
                      ELSE InvokerReply(o.call))
  /\ calls' = Append(calls, o.call)
  /\ UNCHANGED <<top, last, phase, req, out>>

\* The handler calls the index reader and gets its answer ...
IndexCall == phase = "running" /\ Answer(Handler(req, rs), IndexOps, NoErr)

\* ... or the call fails (the index is reached over GRPC).
IndexCallFails == phase = "running" /\ Answer(Handler(req, rs), IndexOps, ErrUnavailable)

\* The handler calls the script invoker and gets its answer ...
InvokerCall == phase = "running" /\ Answer(Handler(req, rs), InvokerOps, NoErr)

\* ... or the invocation fails.
InvokerCallFails == phase = "running" /\ Answer(Handler(req, rs), InvokerOps, ErrInvoker)

Respond(o) ==
  /\ o.k = "ret"
  /\ out' = [err |-> o.err, resp |-> o.resp]
  /\ phase' = "done"
  /\ UNCHANGED <<top, last, req, rs, calls>>

\* The handler returns its response and error.
Return == phase = "running" /\ Respond(Handler(req, rs))

\* The handler panics: no interceptor of main.go recovers, the process dies.
Crash ==
  /\ phase = "running"
  /\ Handler(req, rs).k = "panic"
  /\ phase' = "crashed"
  /\ UNCHANGED <<top, last, req, rs, calls, out>>

Next ==
  \/ IndexHeight
  \/ AdvanceLast
  \/ RecvPing
  \/ RecvGetLatestBlockHeader
  \/ RecvGetBlockHeaderByID
  \/ RecvGetBlockHeaderByHeight
  \/ RecvGetLatestBlock
  \/ RecvGetBlockByID
  \/ RecvGetBlockByHeight
  \/ RecvGetCollectionByID
  \/ RecvGetTransaction
  \/ RecvGetTransactionResult
  \/ RecvGetTransactionResultByIndex
  \/ RecvGetTransactionResultsByBlockID
  \/ RecvGetTransactionsByBlockID
  \/ RecvGetAccount
  \/ RecvGetAccountAtLatestBlock
  \/ RecvGetAccountAtBlockHeight
  \/ RecvExecuteScriptAtLatestBlock
  \/ RecvExecuteScriptAtBlockID
  \/ RecvExecuteScriptAtBlockHeight
  \/ RecvGetEventsForHeightRange
  \/ RecvGetEventsForBlockIDs
  \/ RecvGetNetworkParameters
  \/ RecvGetExecutionResultForBlockID
  \/ RecvSendTransaction
  \/ RecvGetLatestProtocolStateSnapshot
  \/ IndexCall
  \/ IndexCallFails
  \/ InvokerCall
  \/ InvokerCallFails
  \/ Return
  \/ Crash

Spec == Init /\ [][Next]_vars

(***************************************************************************)
(* A request served while the index does not change and answers every      *)
(* call: the handler runs to its end against the current index.            *)
(***************************************************************************)
RECURSIVE RunFrom(_, _)
RunFrom(r, s) ==
  LET o == Handler(r, s)
  IN IF o.k = "call"
     THEN RunFrom(r, Append(s, IF o.call.op \in IndexOps THEN IndexReply(o.call)
                               ELSE InvokerReply(o.call)))
     ELSE o

Run(r) == RunFrom(r, <<>>)

\* The request of endpoint ep has been answered.
Done(ep) == phase = "done" /\ req.ep = ep
\* The reply the request got to its first call of op (there is one).
ReplyTo(op) == rs[CHOOSE i \in 1..Len(calls) : calls[i].op = op /\ \A j \in 1..(i - 1) : calls[j].op # op]
Called(op) == \E i \in 1..Len(calls) : calls[i].op = op
\* The height and the position of a transaction of the chain.
TxHeight(txID) == CHOOSE h \in Heights : \E i \in 1..NTx(h) : TxID(h, i) = txID
TxPos(txID) == CHOOSE i \in 1..NTx(TxHeight(txID)) : TxID(TxHeight(txID), i) = txID

(***************************************************************************)
(* The properties.                                                         *)
(***************************************************************************)

\* C1: a successful GetTransactionResult for a transaction of height h reports
\* SEALED exactly when h <= Last() and EXECUTED exactly when h > Last(), Last()
\* being the value the request read; it reports no other status.
C1_StatusFollowsLast ==
  (Done("GetTransactionResult") /\ out.err = NoErr) =>
    LET h == TxHeight(HashToID(req.Id))
        lastRead == ReplyTo("Last").val
    IN /\ out.resp.Status \in {SEALED, EXECUTED}
       /\ (out.resp.Status = SEALED) <=> (h <= lastRead)
       /\ (out.resp.Status = EXECUTED) <=> (h > lastRead)

\* A transaction of the height right above Last() was reported EXECUTED.
C1_Witness ==
  /\ Done("GetTransactionResult")
  /\ out.err = NoErr
  /\ out.resp.Status = EXECUTED
  /\ TxHeight(HashToID(req.Id)) = ReplyTo("Last").val + 1

\* What the client gets of an outcome: the response and the error.
Reply(o) == [err |-> o.err, resp |-> o.resp]
\* No call of the request failed in transit.
NoFault == \A i \in 1..Len(rs) : rs[i].err # ErrUnavailable

\* C2: for every height h with First() <= h <= Last(), GetBlockByID with the ID
\* of the header stored at h returns what GetBlockByHeight(h) returns, and
\* GetBlockHeaderByID what GetBlockHeaderByHeight(h) returns, on the same index;
\* and a GetBlockByID or GetBlockHeaderByID request that was answered returned
\* the response of the by-height endpoint for the height its ID resolved to.
C2_ByIDSameAsByHeight ==
  /\ \A h \in First.val..Last.val :
       LET id == IDToHash(ID(Header(h).val))
       IN /\ Reply(Run([Id |-> id, ep |-> "GetBlockByID"]))
               = Reply(Run([Height |-> h, ep |-> "GetBlockByHeight"]))
          /\ Reply(Run([Id |-> id, ep |-> "GetBlockHeaderByID"]))
               = Reply(Run([Height |-> h, ep |-> "GetBlockHeaderByHeight"]))
  /\ (Done("GetBlockByID") /\ NoFault /\ ~IsErr(rs[1])) =>
       out = Reply(Run([Height |-> rs[1].val, ep |-> "GetBlockByHeight"]))
  /\ (Done("GetBlockHeaderByID") /\ NoFault /\ ~IsErr(rs[1])) =>
       out = Reply(Run([Height |-> rs[1].val, ep |-> "GetBlockHeaderByHeight"]))

\* GetBlockByID returned the block of a height above First() that has seals and
\* guarantees, the same block GetBlockByHeight returns.
C2_Witness ==
  /\ Done("GetBlockByID")
  /\ out.err = NoErr
  /\ out.resp.Block.Height > FirstHeight
  /\ out.resp.Block.Height <= last
  /\ out.resp.Block.BlockSeals # <<>>
  /\ out.resp.Block.CollectionGuarantees # <<>>
  /\ req.Id = IDToHash(ID(StoredHeader(out.resp.Block.Height)))
  /\ out = Reply(Run([Height |-> out.resp.Block.Height, ep |-> "GetBlockByHeight"]))

\* The events of height h a query for Type is to return.
EventsOfType(h, Type) ==
  IF Type = "" THEN StoredEvents(h) ELSE SelectSeq2(StoredEvents(h), {Type})

\* C3: a successful GetEventsForHeightRange over [StartHeight, EndHeight] with
\* StartHeight <= EndHeight holds EndHeight - StartHeight + 1 records, the i-th
\* for height StartHeight + i - 1 with the events of the type at that height,
\* an empty list when the height has none.
C3_OneRecordPerHeight ==
  (Done("GetEventsForHeightRange") /\ out.err = NoErr /\ req.StartHeight <= req.EndHeight) =>
    LET results == out.resp.Results
    IN /\ Len(results) = (req.EndHeight - req.StartHeight) + 1
       /\ \A i \in 1..Len(results) :
            /\ results[i].BlockHeight = (req.StartHeight + i) - 1
            /\ results[i].Events
                 = EventsToMessages(EventsOfType(results[i].BlockHeight, req.Type))

\* A range of several heights was answered, with a record that holds events
\* and a record for a height without matching events.
C3_Witness ==
  /\ Done("GetEventsForHeightRange")
  /\ out.err = NoErr
  /\ req.StartHeight < req.EndHeight
  /\ \E i \in 1..Len(out.resp.Results) : out.resp.Results[i].Events = <<>>
  /\ \E i \in 1..Len(out.resp.Results) : out.resp.Results[i].Events # <<>>

\* C4: a successful GetEventsForBlockIDs response holds one record per supplied
\* ID, the i-th record being the one of the i-th ID: its BlockId is the
\* identifier the i-th input denotes (the input itself when it has the length of
\* an identifier) and its BlockHeight the height that identifier resolved to.
C4_ResultsFollowInputOrder ==
  (Done("GetEventsForBlockIDs") /\ out.err = NoErr) =>
    LET results == out.resp.Results
    IN /\ Len(results) = Len(req.BlockIds)
       /\ \A i \in 1..Len(results) :
            /\ results[i].BlockId = HashToID(req.BlockIds[i])
            /\ Len(req.BlockIds[i]) = IDLen => results[i].BlockId = req.BlockIds[i]
            /\ BlockID(results[i].BlockHeight) = results[i].BlockId
            /\ results[i].BlockHeight = rs[3 * i - 2].val
            /\ results[i].Events
                 = EventsToMessages(EventsOfType(results[i].BlockHeight, req.Type))

\* IDs in descending height were answered in that order.
C4_Witness ==
  /\ Done("GetEventsForBlockIDs")
  /\ out.err = NoErr
  /\ Len(out.resp.Results) = 2
  /\ req.BlockIds[1] = out.resp.Results[1].BlockId
  /\ req.BlockIds[2] = out.resp.Results[2].BlockId
  /\ out.resp.Results[1].BlockHeight > out.resp.Results[2].BlockHeight

\* C5: SendTransaction, GetLatestProtocolStateSnapshot and
\* GetExecutionResultForBlockID never call the index reader or the script
\* invoker, and always return a nil response with the error that says the
\* endpoint is not implemented.
Unimplemented == {"SendTransaction", "GetLatestProtocolStateSnapshot",
                  "GetExecutionResultForBlockID"}

NotImplementedErrors ==
  {<<"GetExecutionResultForBlockID is not implemented by the Flow DPS API; please use the Flow Access API on a Flow access node directly">>,
   <<"SendTransaction is not implemented by the Flow DPS API; please use the Flow Access API on a Flow access node directly">>,
   <<"GetLatestProtocolSnapshot is not implemented by the Flow DPS API; please use the Flow Access API on a Flow access node directly">>}

C5_UnimplementedAlwaysFail ==
  (req.ep \in Unimplemented) =>
    /\ calls = <<>>
    /\ phase # "crashed"
    /\ phase = "done" => (out.resp = NilResp /\ out.err \in NotImplementedErrors)

\* SendTransaction was answered while the index held more than its root.
C5_Witness ==
  /\ Done("SendTransaction")
  /\ out.err \in NotImplementedErrors
  /\ top > FirstHeight

\* C6: GetBlockHeaderByID for an ID that no indexed block has returns a nil
\* response and an error, which is the index's NotFound when the index answered
\* the lookup, and the request never calls Header.
IDPresent(Id) == \E h \in Heights : Indexed(h) /\ BlockID(h) = HashToID(Id)

C6_HeaderByAbsentID ==
  (req.ep = "GetBlockHeaderByID" /\ ~IDPresent(req.Id)) =>
    /\ ~Called("Header")
    /\ phase # "crashed"
    /\ phase = "done" =>
         /\ out.resp = NilResp
         /\ out.err # NoErr
         /\ rs[1] = Err(ErrNotFound) => out.err = <<"could not get height for block", "NotFound">>

\* An absent ID was looked up, and the request ended with NotFound.
C6_Witness ==
  /\ Done("GetBlockHeaderByID")
  /\ ~IDPresent(req.Id)
  /\ calls = <<C("HeightForBlock", <<HashToID(req.Id)>>)>>
  /\ out.err = <<"could not get height for block", "NotFound">>

\* C8: in a successful GetTransactionResult response StatusCode is 1 exactly
\* when the stored result's ErrorMessage is empty and 0 otherwise, and the
\* response's ErrorMessage is the stored one.
C8_StatusCodeFollowsErrorMessage ==
  (Done("GetTransactionResult") /\ out.err = NoErr) =>
    LET txID == HashToID(req.Id)
        stored == StoredResult(TxHeight(txID), TxPos(txID))
    IN /\ out.resp.StatusCode = (IF stored.ErrorMessage = "" THEN 1 ELSE 0)
       /\ out.resp.ErrorMessage = stored.ErrorMessage

\* The result of a failed transaction was returned.
C8_Witness ==
  /\ Done("GetTransactionResult")
  /\ out.err = NoErr
  /\ out.resp.ErrorMessage = "reverted"
  /\ out.resp.StatusCode = 0

\* The calls that take a height.
HeightKeyedOps == {"Header", "SealsByHeight", "CollectionsByHeight", "TransactionsByHeight",
                   "Events", "Script", "Account"}

\* C7: the script invoker is never called with a height outside
\* [First(), Last()], and a request that succeeds has looked up nothing, and
\* run nothing, at a height outside [First(), Last()].
C7_HeightsWithinRange ==
  /\ (phase = "running" /\ Handler(req, rs).k = "call"
        /\ Handler(req, rs).call.op \in InvokerOps) =>
       Handler(req, rs).call.args[1] \in First.val..Last.val
  /\ (phase = "done" /\ out.err = NoErr) =>
       \A i \in 1..Len(calls) :
         calls[i].op \in HeightKeyedOps => calls[i].args[1] \in First.val..Last.val

\* ExecuteScriptAtBlockHeight ran the script at a height above Last().
C7_Witness ==
  /\ Done("ExecuteScriptAtBlockHeight")
  /\ Len(calls) = 1
  /\ calls[1].op = "Script"
  /\ calls[1].args[1] = req.BlockHeight
  /\ req.BlockHeight > last

\* C9: a successful GetTransactionResultByIndex(block, i) returns the result of
\* the transaction of index i of the block: its ErrorMessage and StatusCode
\* are those stored for that transaction.
C9_ResultOfIndexedTransaction ==
  (Done("GetTransactionResultByIndex") /\ out.err = NoErr) =>
    LET height == rs[1].val
        stored == StoredResult(height, req.Index + 1)
    IN /\ req.Index < NTx(height)
       /\ out.resp.ErrorMessage = stored.ErrorMessage
       /\ out.resp.StatusCode = StatusCode(stored)

\* The result of the transaction of index 0 was returned for index 1.
C9_Witness ==
  /\ Done("GetTransactionResultByIndex")
  /\ out.err = NoErr
  /\ req.Index = 1
  /\ NTx(rs[1].val) = 2
  /\ out.resp.ErrorMessage = StoredResult(rs[1].val, 1).ErrorMessage
  /\ out.resp.ErrorMessage # StoredResult(rs[1].val, 2).ErrorMessage

\* C10: in GetBlockByHeight a failed lookup is the last call of the request,
\* the request then returns a nil response and an error, and a block that is
\* returned holds one seal per ID of SealsByHeight and one guarantee per ID of
\* CollectionsByHeight.
C10_BlockAllOrNothing ==
  (req.ep = "GetBlockByHeight") =>
    /\ phase # "crashed"
    /\ \A i \in 1..Len(rs) : IsErr(rs[i]) => i = Len(rs)
    /\ (phase = "done" /\ \E i \in 1..Len(rs) : IsErr(rs[i])) =>
         (out.resp = NilResp /\ out.err # NoErr)
    /\ (phase = "done" /\ out.err = NoErr) =>
         LET sealIDs == rs[2].val
             collIDs == rs[3 + Len(sealIDs)].val
         IN /\ Len(out.resp.Block.BlockSeals) = Len(sealIDs)
            /\ Len(out.resp.Block.CollectionGuarantees) = Len(collIDs)
            /\ Len(rs) = (3 + Len(sealIDs)) + Len(collIDs)

\* After the header, the seals and a first guarantee were fetched, the lookup
\* of the second guarantee failed, and the request returned no block.
C10_Witness ==
  /\ Done("GetBlockByHeight")
  /\ Len(calls) >= 5
  /\ calls[Len(calls)].op = "Guarantee"
  /\ calls[Len(calls) - 1].op = "Guarantee"
  /\ IsErr(rs[Len(rs)])
  /\ ~IsErr(rs[Len(rs) - 1])
  /\ out.resp = NilResp
  /\ out.err = <<"could not get collection with ID", "Unavailable">>

\* C11: in GetEventsForHeightRange and GetEventsForBlockIDs a failed lookup is
\* the last call of the request, and the request then returns a nil response
\* and an error that wraps the failure, whatever records it had assembled.
EventsEndpoints == {"GetEventsForHeightRange", "GetEventsForBlockIDs"}

C11_EventsBatchAborts ==
  (req.ep \in EventsEndpoints) =>
    /\ phase # "crashed"
    /\ \A i \in 1..Len(rs) : IsErr(rs[i]) => i = Len(rs)
    /\ (phase = "done" /\ \E i \in 1..Len(rs) : IsErr(rs[i])) =>
         /\ out.resp = NilResp
         /\ Len(out.err) >= 2
         /\ Rest(out.err, 1) = rs[Len(rs)].err

\* The range query had assembled the record of its first height when the
\* events of the second height were not found: it returned no record.
C11_Witness ==
  /\ Done("GetEventsForHeightRange")
  /\ Len(rs) = 3
  /\ ~IsErr(rs[1]) /\ ~IsErr(rs[2])
  /\ rs[3] = Err(ErrNotFound)
  /\ out.resp = NilResp
  /\ out.err = <<"could not get events at height", "NotFound">>

\* C12: when an argument of an ExecuteScript request does not decode, at any
\* position of the list, the request never calls the invoker's Script and
\* returns a nil response and an error, the decoding error when the lookup of
\* the height did not fail before.
ScriptEndpoints == {"ExecuteScriptAtLatestBlock", "ExecuteScriptAtBlockID",
                    "ExecuteScriptAtBlockHeight"}
BadArgument(Arguments) == \E i \in 1..Len(Arguments) : IsErr(Decode(Arguments[i]))

C12_BadArgumentNeverInvokes ==
  (req.ep \in ScriptEndpoints /\ BadArgument(req.Arguments)) =>
    /\ phase # "crashed"
    /\ ~Called("Script")
    /\ phase = "done" =>
         /\ out.resp = NilResp
         /\ out.err # NoErr
         /\ (\A i \in 1..Len(rs) : ~IsErr(rs[i])) =>
              out.err = <<"could not decode script argument", "invalid integer">>

\* A request whose second argument does not decode was refused without a call.
C12_Witness ==
  /\ Done("ExecuteScriptAtBlockHeight")
  /\ Len(req.Arguments) = 2
  /\ ~IsErr(Decode(req.Arguments[1]))
  /\ IsErr(Decode(req.Arguments[2]))
  /\ calls = <<>>
  /\ out.resp = NilResp
  /\ out.err = <<"could not decode script argument", "invalid integer">>

(***************************************************************************)
(* The server with one request of each endpoint (two of                    *)
(* GetTransactionResultByIndex: one that is served, one that panics), for  *)
(* the properties of single steps.                                         *)
(***************************************************************************)
FrameRequests ==
  {[ep |-> "Ping"],
   [ep |-> "GetLatestBlockHeader"],
   [Id |-> BlockID(FirstHeight), ep |-> "GetBlockHeaderByID"],
   [Height |-> FirstHeight + 1, ep |-> "GetBlockHeaderByHeight"],
   [ep |-> "GetLatestBlock"],
   [Id |-> BlockID(FirstHeight), ep |-> "GetBlockByID"],
   [Height |-> FirstHeight + 1, ep |-> "GetBlockByHeight"],
   [Id |-> CollID(FirstHeight, 1), ep |-> "GetCollectionByID"],
   [Id |-> TxID(FirstHeight, 1), ep |-> "GetTransaction"],
   [Id |-> TxID(FirstHeight + 1, 1), ep |-> "GetTransactionResult"],
   [BlockId |-> BlockID(FirstHeight), Index |-> 0, ep |-> "GetTransactionResultByIndex"],
   [BlockId |-> AbsentID, Index |-> 0, ep |-> "GetTransactionResultByIndex"],
   [BlockId |-> BlockID(FirstHeight), ep |-> "GetTransactionResultsByBlockID"],
   [BlockId |-> BlockID(FirstHeight), ep |-> "GetTransactionsByBlockID"],
   [Address |-> KnownAddress, ep |-> "GetAccount"],
   [Address |-> KnownAddress, ep |-> "GetAccountAtLatestBlock"],
   [Address |-> KnownAddress, BlockHeight |-> FirstHeight + 1, ep |-> "GetAccountAtBlockHeight"],
   [Script |-> "echo", Arguments |-> <<>>, ep |-> "ExecuteScriptAtLatestBlock"],
   [Script |-> "echo", BlockId |-> BlockID(FirstHeight), Arguments |-> <<>>,
    ep |-> "ExecuteScriptAtBlockID"],
   [Script |-> "echo", BlockHeight |-> FirstHeight + 1, Arguments |-> <<>>,
    ep |-> "ExecuteScriptAtBlockHeight"],
   [Type |-> "", EndHeight |-> FirstHeight + 1, StartHeight |-> FirstHeight,
    ep |-> "GetEventsForHeightRange"],
   [Type |-> "", BlockIds |-> <<BlockID(FirstHeight + 1), BlockID(FirstHeight)>>,
    ep |-> "GetEventsForBlockIDs"],
   [ep |-> "GetNetworkParameters"],
   [BlockId |-> BlockID(FirstHeight), ep |-> "GetExecutionResultForBlockID"],
   [Transaction |-> "tx1", ep |-> "SendTransaction"],
   [ep |-> "GetLatestProtocolStateSnapshot"]}

RecvAny == \E r \in FrameRequests : Begin(r)

NextFrame ==
  \/ IndexHeight
  \/ AdvanceLast
  \/ RecvAny
  \/ IndexCall
  \/ IndexCallFails
  \/ InvokerCall
  \/ InvokerCallFails
  \/ Return
  \/ Crash

SpecFrame == Init /\ [][NextFrame]_vars

\* What the index reader answers in the current state: First(), Last(), and
\* every lookup by height and by ID.
IndexContent ==
  <<First, Last,
    [h \in HeightInputs |->
       <<Header(h), SealsByHeight(h), CollectionsByHeight(h), TransactionsByHeight(h),
         Events(h, <<>>)>>],
    [id \in BlockIDInputs |-> HeightForBlock(HashToID(id))],
    [id \in TxIDInputs |-> <<HeightForTransaction(id), Transaction(id), Result(id)>>],
    [id \in CollIDInputs |-> <<Collection(id), Guarantee(id)>>],
    [h \in Heights |-> [i \in 1..NSeals(h) |-> Seal(SealID(h, i))]]>>

\* C13: no step of the server (receiving a request, a call of its handler,
\* its return or its panic) changes what the index reader answers: First(),
\* Last() and every stored entity stay what they were.
C13_RequestsLeaveIndexUnchanged ==
  [][(<<phase, req, rs, calls, out>>' # <<phase, req, rs, calls, out>>)
       => (IndexContent' = IndexContent)]_vars

\* A request with several lookups was served while the index held heights
\* above Last().
C13_Witness ==
  /\ phase = "done"
  /\ Len(calls) >= 3
  /\ out.err = NoErr
  /\ last < top

\* The values a script can be given or can return: those the arguments of
\* the requests decode to, and Void.
ScriptValues ==
  {Decode(w).val : w \in {x \in WireInputs : ~IsErr(Decode(x))}} \cup {[Type |-> "Void", Value |-> 0]}

C15_ByIndexFailureIsAnError ==
  (req.ep = "GetTransactionResultByIndex") =>
    /\ phase # "crashed"
    /\ (phase = "done" /\ \E i \in 1..Len(rs) : IsErr(rs[i])) =>
         /\ out.resp = NilResp
         /\ Len(out.err) > Len(rs[Len(rs)].err)
         /\ Rest(out.err, Len(out.err) - Len(rs[Len(rs)].err)) = rs[Len(rs)].err

\* The block ID was not found and the handler panicked.
C15_Witness ==
  /\ phase = "crashed"
  /\ req.ep = "GetTransactionResultByIndex"
  /\ rs = <<Err(ErrNotFound)>>
  /\ calls = <<C("HeightForBlock", <<HashToID(req.BlockId)>>)>>

\* C16: every event of a successful GetTransactionResult response is an event
\* of the requested transaction.
C16_EventsOfTheTransaction ==
  (Done("GetTransactionResult") /\ out.err = NoErr) =>
    \A j \in 1..Len(out.resp.Events) :
      /\ out.resp.Events[j].TransactionId = HashToID(req.Id)
      /\ out.resp.Events[j].TransactionIndex + 1 = TxPos(HashToID(req.Id))

\* The response for one transaction carries an event of another transaction
\* of the same height.
C16_Witness ==
  /\ Done("GetTransactionResult")
  /\ out.err = NoErr
  /\ \E j \in 1..Len(out.resp.Events) :
       /\ out.resp.Events[j].TransactionId # HashToID(req.Id)
       /\ TxHeight(out.resp.Events[j].TransactionId) = TxHeight(HashToID(req.Id))

\* C17: a block returned by GetBlockByHeight(h) has Height h and the ID of the
\* header; its i-th seal carries the BlockID and the ResultID of the seal
\* stored for the i-th ID of SealsByHeight(h) and no signature; its j-th
\* guarantee carries the j-th ID of CollectionsByHeight(h) and one signature,
\* the one of the guarantee stored for that ID.
C17_BlockProjection ==
  (Done("GetBlockByHeight") /\ out.err = NoErr) =>
    LET block == out.resp.Block
        sealIDs == rs[2].val
        n == 2 + Len(sealIDs)
        collIDs == rs[n + 1].val
    IN /\ block.Height = req.Height
       /\ block.Id = IDToHash(ID(rs[1].val))
       /\ Len(block.BlockSeals) = Len(sealIDs)
       /\ \A i \in 1..Len(sealIDs) :
            /\ calls[2 + i] = C("Seal", <<sealIDs[i]>>)
            /\ block.BlockSeals[i].BlockId = StoredSeal(req.Height, i).BlockID
            /\ block.BlockSeals[i].ExecutionReceiptId = StoredSeal(req.Height, i).ResultID
            /\ block.BlockSeals[i].ExecutionReceiptSignatures = <<>>
       /\ Len(block.CollectionGuarantees) = Len(collIDs)
       /\ \A j \in 1..Len(collIDs) :
            /\ calls[(n + 1) + j] = C("Guarantee", <<collIDs[j]>>)
            /\ block.CollectionGuarantees[j].CollectionId = IDToHash(collIDs[j])
            /\ block.CollectionGuarantees[j].Signatures
                 = <<StoredGuarantee(req.Height, j).Signature>>

\* A block with several seals and one with several guarantees were returned.
C17_Witness ==
  /\ Done("GetBlockByHeight")
  /\ out.err = NoErr
  /\ \/ Len(out.resp.Block.BlockSeals) >= 2
     \/ Len(out.resp.Block.CollectionGuarantees) >= 2
  /\ out.resp.Block.BlockSeals # <<>>
  /\ out.resp.Block.CollectionGuarantees # <<>>

\* C18: an ExecuteScript request calls the invoker's Script at most once and a
\* GetAccount request Account at most once, as the last call of the request
\* and with the height of the request (the height it carries, or the one Last()
\* or HeightForBlock returned to it); when the call fails the request returns
\* a nil response and an error that wraps the invoker's.
AccountEndpoints == {"GetAccount", "GetAccountAtLatestBlock", "GetAccountAtBlockHeight"}

C18_InvokerCalledOnce ==
  (req.ep \in ScriptEndpoints \cup AccountEndpoints) =>
    /\ phase # "crashed"
    /\ \A i \in 1..Len(calls) :
         calls[i].op \in InvokerOps =>
           /\ i = Len(calls)
           /\ calls[i].op = (IF req.ep \in ScriptEndpoints THEN "Script" ELSE "Account")
           /\ calls[i].args[1] = (IF req.ep \in {"ExecuteScriptAtBlockHeight",
                                                  "GetAccountAtBlockHeight"}
                                  THEN req.BlockHeight ELSE rs[1].val)
           /\ (req.ep \in {"ExecuteScriptAtBlockHeight", "GetAccountAtBlockHeight"}) <=> (i = 1)
           /\ (phase = "done" /\ IsErr(rs[i])) =>
                /\ out.resp = NilResp
                /\ Len(out.err) > Len(rs[i].err)
                /\ Rest(out.err, Len(out.err) - Len(rs[i].err)) = rs[i].err

\* The script was run once at the height Last() returned, the invocation
\* failed, and the request returned the invoker's error, wrapped.
C18_Witness ==
  /\ Done("ExecuteScriptAtLatestBlock")
  /\ Len(calls) = 2
  /\ calls[1] = C("Last", <<>>)
  /\ calls[2].op = "Script"
  /\ calls[2].args[1] = rs[1].val
  /\ rs[2] = Err(ErrInvoker)
  /\ out.resp = NilResp
  /\ out.err = <<"could not execute script", "ExecutionFailed">>

\* C19: a GetTransactionResultsByBlockID request asks for the height of its
\* block and for the transactions of that height; a request one of whose calls
\* failed returns an error and no list, the error of the failing member
\* wrapped; a successful response holds one result per transaction ID the index
\* returned, in that order, each the response GetTransactionResult gives for
\* that ID on the replies the index gave for it.
C19_ResultsOfTheBlock ==
  Done("GetTransactionResultsByBlockID") =>
    LET n == Len(rs)
        failed == \E i \in 1..n : IsErr(rs[i])
        member(j) == GetTransactionResult(IDToHash(rs[2].val[j]),
                                          SubSeq(rs, 5 * j - 2, IF 5 * j + 2 <= n THEN 5 * j + 2 ELSE n))
    IN /\ calls[1] = C("HeightForBlock", <<HashToID(req.BlockId)>>)
       /\ failed => (out.resp = NilResp /\ out.err # NoErr /\ IsErr(rs[n]))
       /\ (n >= 2 /\ ~IsErr(rs[1])) => calls[2] = C("TransactionsByHeight", <<rs[1].val>>)
       /\ (failed /\ n > 2) =>
            LET g == member(((n - 3) \div 5) + 1)
            IN /\ g.k = "ret"
               /\ g.err # NoErr
               /\ out.err = Wrap("could not get transaction for id", g.err)
       /\ ~failed =>
            /\ out.err = NoErr
            /\ n = 2 + 5 * Len(rs[2].val)
            /\ Len(out.resp.TransactionResults) = Len(rs[2].val)
            /\ \A j \in 1..Len(rs[2].val) :
                 /\ calls[5 * j - 2] = C("Result", <<rs[2].val[j]>>)
                 /\ member(j).k = "ret"
                 /\ member(j).err = NoErr
                 /\ out.resp.TransactionResults[j] = member(j).resp

\* A block of two transactions was asked for and the response holds their two
\* results, the first transaction's first.
C19_Witness ==
  /\ Done("GetTransactionResultsByBlockID")
  /\ out.err = NoErr
  /\ Len(rs[2].val) = 2
  /\ Len(out.resp.TransactionResults) = 2
  /\ calls[3] = C("Result", <<rs[2].val[1]>>)
  /\ calls[8] = C("Result", <<rs[2].val[2]>>)
  /\ out.resp.TransactionResults[1] # out.resp.TransactionResults[2]

\* C20: a request of a 'latest' endpoint calls Last() once, as its first call;
\* the value it gets is the value of Last() at the moment of the call and is
\* never greater than Last() afterwards, the moment the response is returned
\* included; every later call of the request is the call the by-height
\* endpoint makes for that value, and the response is the one the by-height
\* endpoint returns for it.
LatestEndpoints ==
  {"GetLatestBlock", "GetLatestBlockHeader", "GetAccountAtLatestBlock", "GetAccount",
   "ExecuteScriptAtLatestBlock"}

C20_LatestServesLast ==
  /\ [](req.ep \in LatestEndpoints =>
          LET byHeight ==
                CASE req.ep = "GetLatestBlock" ->
                       [Height |-> rs[1].val, ep |-> "GetBlockByHeight"]
                  [] req.ep = "GetLatestBlockHeader" ->
                       [Height |-> rs[1].val, ep |-> "GetBlockHeaderByHeight"]
                  [] req.ep \in {"GetAccountAtLatestBlock", "GetAccount"} ->
                       [Address |-> req.Address, BlockHeight |-> rs[1].val,
                        ep |-> "GetAccountAtBlockHeight"]
                  [] OTHER ->
                       [Script |-> req.Script, BlockHeight |-> rs[1].val,
                        Arguments |-> req.Arguments, ep |-> "ExecuteScriptAtBlockHeight"]
          IN /\ phase # "crashed"
             /\ phase = "done" => Len(calls) >= 1
             /\ \A i \in 1..Len(calls) : (calls[i].op = "Last") <=> (i = 1)
             /\ (Len(rs) >= 1 /\ IsErr(rs[1])) => Len(rs) = 1
             /\ (Len(rs) >= 1 /\ ~IsErr(rs[1])) =>
                  /\ rs[1].val <= last
                  /\ \A i \in 2..Len(calls) :
                       Handler(byHeight, SubSeq(rs, 2, i - 1)) = Call(calls[i])
                  /\ phase = "done" =>
                       /\ Handler(byHeight, Rest(rs, 1)).k = "ret"
                       /\ out = Reply(Handler(byHeight, Rest(rs, 1))))
  /\ [][(req.ep \in LatestEndpoints /\ Len(calls) = 0 /\ Len(calls') = 1 /\ ~IsErr(rs'[1]))
          => (calls'[1] = C("Last", <<>>) /\ rs'[1].val = last)]_vars

\* The index advanced while the latest block was being assembled: the block
\* returned is the one of the height Last() gave, now below Last().
C20_Witness ==
  /\ Done("GetLatestBlock")
  /\ out.err = NoErr
  /\ calls[1] = C("Last", <<>>)
  /\ out.resp.Block.Height = rs[1].val
  /\ rs[1].val < last

(***************************************************************************)
(* The server answering GetTransactionResult requests, one after another,  *)
(* while the index grows.                                                  *)
(***************************************************************************)
NextStatus ==
  \/ IndexHeight
  \/ AdvanceLast
  \/ RecvGetTransactionResult
  \/ IndexCall
  \/ IndexCallFails
  \/ Return

SpecStatus == Init /\ [][NextStatus]_vars

\* C21: Last() only grows, and so the status of a transaction only moves from
\* EXECUTED to SEALED: once a GetTransactionResult response for a transaction
\* has reported SEALED, every response to a GetTransactionResult request for
\* that transaction from then on reports SEALED; and while a response
\* reporting SEALED is the one returned, the height of its transaction is at
\* most Last().
C21_StatusMonotonic ==
  /\ [](( /\ Done("GetTransactionResult")
          /\ out.err = NoErr
          /\ out.resp.Status = SEALED)
        => /\ rs[2].val = TxHeight(HashToID(req.Id))
           /\ rs[2].val <= last)
  /\ \A id \in TxIDInputs :
       []((Done("GetTransactionResult") /\ req.Id = id /\ out.err = NoErr
             /\ out.resp.Status = SEALED)
          => []((Done("GetTransactionResult") /\ req.Id = id /\ out.err = NoErr)
                  => out.resp.Status = SEALED))

\* The transaction of the height Last() had when the request read it is
\* reported SEALED, and Last() has moved on by the time of the response.
C21_Witness ==
  /\ Done("GetTransactionResult")
  /\ out.err = NoErr
  /\ out.resp.Status = SEALED
  /\ rs[2].val = rs[4].val
  /\ rs[4].val < last

====
